---------------------------- MODULE Spec2Model ----------------------------
(***************************************************************************)
(* Model of FinancialTools.py: calculate_composite_annual_return and       *)
(* calculate_sharpe_ratio over pandas DataFrames.                          *)
(*                                                                         *)
(* Numbers are exact: a cell is a special float (nan, inf, -inf) or a      *)
(* finite real  off + sgn * base^(en/ed)  with rational off and base.      *)
(* Floating-point rounding is not modelled; everything else (operation     *)
(* order, which column a statistic is read from, nan/inf propagation,      *)
(* KeyError, copy-then-write) follows the source line by line.             *)
(***************************************************************************)
EXTENDS Integers, Sequences, FiniteSets, TLC

(***************************************************************************)
(* Bounds of the model.                                                    *)
(***************************************************************************)
\* Largest number of rows of an input table.
MaxRows == 2

\* Largest integer a power is evaluated to; larger powers stay symbolic.
IntCap == 1000000000

(***************************************************************************)
(* Rational numbers <<n, d>> with d > 0 and gcd(n, d) = 1: the finite      *)
(* float values of the program, computed exactly.                          *)
(***************************************************************************)
Abs(x) == IF x < 0 THEN -x ELSE x

Sign(x) == IF x < 0 THEN -1 ELSE IF x = 0 THEN 0 ELSE 1

RECURSIVE GCD(_, _)
GCD(a, b) == IF b = 0 THEN a ELSE GCD(b, a % b)

Rat(n, d) ==
    LET g == GCD(Abs(n), Abs(d))
        s == IF d < 0 THEN -1 ELSE 1
    IN  <<(s * n) \div g, (s * d) \div g>>

Zero == <<0, 1>>

One == <<1, 1>>

RAdd(a, b) == Rat(a[1] * b[2] + b[1] * a[2], a[2] * b[2])

RNeg(a) == <<-a[1], a[2]>>

RSub(a, b) == RAdd(a, RNeg(b))

RMul(a, b) ==
    LET g1 == GCD(Abs(a[1]), b[2])
        g2 == GCD(Abs(b[1]), a[2])
    IN  Rat((a[1] \div g1) * (b[1] \div g2), (a[2] \div g2) * (b[2] \div g1))

RInv(a) == Rat(a[2], a[1])

RDiv(a, b) == RMul(a, RInv(b))

\* x^k for integers x >= 1, k >= 0, saturating at IntCap + 1.
RECURSIVE IPowCap(_, _)
IPowCap(x, k) ==
    IF k = 0 THEN 1
    ELSE LET p == IPowCap(x, k - 1)
         IN  IF p > IntCap \div x THEN IntCap + 1 ELSE p * x

\* The integer r in lo..hi with r^k = x, or 0 when x is no perfect k-th power.
RECURSIVE IRoot(_, _, _, _)
IRoot(x, k, lo, hi) ==
    IF lo > hi THEN 0
    ELSE LET mid == (lo + hi) \div 2
             p == IPowCap(mid, k)
         IN  IF p = x THEN mid
             ELSE IF p < x THEN IRoot(x, k, mid + 1, hi)
             ELSE IRoot(x, k, lo, mid - 1)

\* q (positive rational) is a perfect k-th power of a rational.
IsPower(q, k) == IRoot(q[1], k, 1, q[1]) # 0 /\ IRoot(q[2], k, 1, q[2]) # 0

\* The largest k in 1..kmax for which q is a perfect k-th power.
RECURSIVE MaxPower(_, _)
MaxPower(q, k) == IF k <= 1 \/ IsPower(q, k) THEN k ELSE MaxPower(q, k - 1)

\* floor(log2 x) for x >= 1.
RECURSIVE Log2(_)
Log2(x) == IF x <= 1 THEN 0 ELSE 1 + Log2(x \div 2)

(***************************************************************************)
(* Float values.                                                           *)
(***************************************************************************)
Special(kind) ==
    [k |-> kind, sgn |-> 0, bn |-> 1, bd |-> 1, en |-> 0, ed |-> 1,
     on |-> 0, od |-> 1]

NaN == Special("nan")

PosInf == Special("inf")

NegInf == Special("ninf")

\* The rational q as a float value.
Num(q) == [Special("fin") EXCEPT !.on = q[1], !.od = q[2]]

IsRational(v) == v.k = "fin" /\ v.sgn = 0

Off(v) == <<v.on, v.od>>

\* s * b^(en/ed) in canonical form, the power part b^(en/ed) symbolic:
\* b is no perfect power, en/ed is reduced and positive.
Pow(s, b, en, ed) ==
    [k |-> "fin", sgn |-> s, bn |-> b[1], bd |-> b[2], en |-> en, ed |-> ed,
     on |-> 0, od |-> 1]

\* q^(en/ed) for a rational q > 0 and en/ed > 0: a rational when the power is
\* rational and small enough to be written out, else the canonical power.
CanonPow(q, en, ed) ==
    IF q = One THEN Num(One)
    ELSE LET m == IF q[1] > q[2] THEN q[1] ELSE q[2]
             k == MaxPower(q, Log2(m))
             b == <<IRoot(q[1], k, 1, q[1]), IRoot(q[2], k, 1, q[2])>>
             e == Rat(k * en, ed)
             pn == IPowCap(b[1], e[1])
             pd == IPowCap(b[2], e[1])
         IN  IF e[2] = 1 /\ pn <= IntCap /\ pd <= IntCap
             THEN Num(<<pn, pd>>)
             ELSE Pow(1, b, e[1], e[2])

\* -v
VNeg(v) ==
    CASE v.k = "nan" -> NaN
      [] v.k = "inf" -> NegInf
      [] v.k = "ninf" -> PosInf
      [] v.k = "fin" -> [v EXCEPT !.sgn = -v.sgn, !.on = -v.on]

\* v + q for a rational q: `series + 1`, `series - rate`, `series - 1`.
VAddQ(v, q) ==
    IF v.k = "fin"
    THEN LET o == RAdd(Off(v), q) IN [v EXCEPT !.on = o[1], !.od = o[2]]
    ELSE v

(***************************************************************************)
(* The numpy / scipy / pandas operations the two functions use.            *)
(***************************************************************************)
\* A value of the log domain: ln(an/ad) / dn, or nan, -inf, inf.
LogVal(kind, q, dn) == [k |-> kind, an |-> q[1], ad |-> q[2], dn |-> dn]

\* Variant: a logarithm that is nan at 0 as it is below 0.
NpLogStrict(v) ==
    CASE v.k = "nan" -> LogVal("nan", One, 1)
      [] v.k = "inf" -> LogVal("inf", One, 1)
      [] v.k = "ninf" -> LogVal("nan", One, 1)
      [] IsRational(v) /\ v.on > 0 -> LogVal("fin", Off(v), 1)
      [] IsRational(v) /\ v.on <= 0 -> LogVal("nan", One, 1)

\* np.log of one cell: -inf at 0 and nan below 0 (a warning, no exception).
NpLog(v) ==
    CASE v.k = "nan" -> LogVal("nan", One, 1)
      [] v.k = "inf" -> LogVal("inf", One, 1)
      [] v.k = "ninf" -> LogVal("nan", One, 1)
      [] IsRational(v) /\ v.on > 0 -> LogVal("fin", Off(v), 1)
      [] IsRational(v) /\ v.on = 0 -> LogVal("ninf", One, 1)
      [] IsRational(v) /\ v.on < 0 -> LogVal("nan", One, 1)

\* a + b in the log domain: ln x + ln y = ln(x * y).
LogAdd(a, b) ==
    CASE a.k = "nan" \/ b.k = "nan" -> LogVal("nan", One, 1)
      [] a.k = "fin" /\ b.k = "fin" ->
            LogVal("fin", RMul(<<a.an, a.ad>>, <<b.an, b.ad>>), 1)
      [] a.k = "fin" -> b
      [] b.k = "fin" -> a
      [] a.k = b.k -> a
      [] OTHER -> LogVal("nan", One, 1)

RECURSIVE LogSum(_)
LogSum(logs) ==
    IF Len(logs) = 1 THEN logs[1]
    ELSE LogAdd(LogSum(SubSeq(logs, 1, Len(logs) - 1)), logs[Len(logs)])

\* np.mean of the logs; the mean of no values is nan.
LogMean(logs) ==
    IF Len(logs) = 0 THEN LogVal("nan", One, 1)
    ELSE [LogSum(logs) EXCEPT !.dn = Len(logs)]

\* np.exp of a log-domain value: exp(ln(q) / n) = q^(1/n), exp(-inf) = 0.
NpExp(l) ==
    CASE l.k = "nan" -> NaN
      [] l.k = "inf" -> PosInf
      [] l.k = "ninf" -> Num(Zero)
      [] l.k = "fin" ->
            CanonPow(<<l.an, l.ad>>, 1, l.dn)

RECURSIVE RSum(_)
RSum(qs) ==
    IF Len(qs) = 0 THEN Zero
    ELSE RAdd(RSum(SubSeq(qs, 1, Len(qs) - 1)), qs[Len(qs)])

\* Series.mean(): the sum over the count; nan for an empty column.
SeriesMean(col) ==
    IF Len(col) = 0 THEN NaN
    ELSE Num(RDiv(RSum([i \in 1..Len(col) |-> Off(col[i])]), <<Len(col), 1>>))

\* Variant: the arithmetic mean where the geometric mean is meant.
gmeanAsMean(col) == SeriesMean(col)

\* scipy.stats.gmean of a column: exp(mean(log(a))).
gmean(col) == NpExp(LogMean([i \in 1..Len(col) |-> NpLog(col[i])]))

\* np.power(v, m) of one cell for an integer m >= 1.
NpPower(v, m) ==
    CASE v.k = "nan" -> NaN
      [] v.k = "inf" -> PosInf
      [] v.k = "ninf" -> IF m % 2 = 0 THEN PosInf ELSE NegInf
      [] IsRational(v) /\ v.on = 0 -> Num(Zero)
      [] IsRational(v) /\ v.on # 0 ->
            LET p == CanonPow(<<Abs(v.on), v.od>>, m, 1)
            IN  IF v.on < 0 /\ m % 2 = 1 THEN VNeg(p) ELSE p
      [] v.k = "fin" /\ v.sgn # 0 /\ v.on = 0 ->
            LET p == CanonPow(<<v.bn, v.bd>>, v.en * m, v.ed)
            IN  IF v.sgn < 0 /\ m % 2 = 1 THEN VNeg(p) ELSE p

\* np.sqrt of a rational q >= 0.
NpSqrt(q) == IF q = Zero THEN Num(Zero) ELSE CanonPow(q, 1, 2)

\* Variant: the population standard deviation (ddof = 0).
SeriesStdPopulation(col) ==
    IF Len(col) = 0 THEN NaN
    ELSE LET avg == Off(SeriesMean(col))
             sqr == [i \in 1..Len(col) |->
                        LET d == RSub(avg, Off(col[i])) IN RMul(d, d)]
         IN  NpSqrt(RDiv(RSum(sqr), <<Len(col), 1>>))

\* Series.std(): the sample standard deviation (ddof = 1), the square root of
\* the squared deviations from the mean summed and divided by count - 1;
\* nan when the column has fewer than two rows.
SeriesStd(col) ==
    IF Len(col) <= 1 THEN NaN
    ELSE LET avg == Off(SeriesMean(col))
             sqr == [i \in 1..Len(col) |->
                        LET d == RSub(avg, Off(col[i])) IN RMul(d, d)]
         IN  NpSqrt(RDiv(RSum(sqr), <<Len(col) - 1, 1>>))

\* Variant: a division guarded against a zero or undefined divisor.
FloatDivGuarded(a, b) ==
    CASE a.k = "nan" -> Num(Zero)
      [] b.k = "nan" -> Num(Zero)
      [] IsRational(b) /\ b.on = 0 -> Num(Zero)
      [] IsRational(b) /\ b.on # 0 -> Num(RDiv(Off(a), Off(b)))
      [] OTHER -> Num(Zero)

\* a / b of two numpy float64 scalars, a rational or nan and b >= 0 or nan:
\* x / 0 is inf, -inf or nan (a warning, no exception).
FloatDiv(a, b) ==
    CASE a.k = "nan" \/ b.k = "nan" -> NaN
      [] IsRational(b) /\ b.on = 0 ->
            IF a.on > 0 THEN PosInf ELSE IF a.on < 0 THEN NegInf ELSE NaN
      [] IsRational(b) /\ b.on # 0 -> Num(RDiv(Off(a), Off(b)))
      [] b.sgn # 0 /\ a.on = 0 -> Num(Zero)
      [] b.sgn # 0 /\ a.on # 0 ->
            LET num == <<Abs(a.on) ^ b.ed, a.od ^ b.ed>>
                den == <<b.bn ^ b.en, b.bd ^ b.en>>
                q == CanonPow(RDiv(num, den), 1, b.ed)
            IN  IF a.on < 0 THEN VNeg(q) ELSE q

(***************************************************************************)
(* DataFrames: ordered column names, a row count, and one series of        *)
(* nrows cells per column.  The heap is the sequence of the DataFrame      *)
(* objects alive; a reference is an index into it.                         *)
(***************************************************************************)
Columns(df) == {df.cols[i] : i \in 1..Len(df.cols)}

\* Variant: a lookup that gives zeros for a missing column.
GetItemDefault(df, name) ==
    IF name \in Columns(df)
    THEN [raised |-> FALSE, series |-> df.data[name]]
    ELSE [raised |-> FALSE, series |-> [i \in 1..df.nrows |-> Num(Zero)]]

\* df[name]: the column's series, or KeyError when there is no such column.
GetItem(df, name) ==
    IF name \in Columns(df)
    THEN [raised |-> FALSE, series |-> df.data[name]]
    ELSE [raised |-> TRUE, series |-> <<>>]

\* df[name] = series: overwrites the column where it stands, or appends it.
SetItem(df, name, series) ==
    IF name \in Columns(df)
    THEN [df EXCEPT !.data[name] = series]
    ELSE [cols |-> Append(df.cols, name),
          nrows |-> df.nrows,
          data |-> [c \in Columns(df) \cup {name} |->
                       IF c = name THEN series ELSE df.data[c]]]

\* Variant: the scalar wrapped in a one-row series, aligned on the index.
BroadcastFirstRow(df, v) == [i \in 1..df.nrows |-> IF i = 1 THEN v ELSE NaN]

\* The series a scalar assigned to a column becomes: one copy per row.
Broadcast(df, v) == [i \in 1..df.nrows |-> v]

\* Variant: a second name for the same object instead of a copy.
DataFrameAlias(heap, ref) == [heap |-> heap, ref |-> ref]

\* df.copy(): a new object holding the same columns and cells.
DataFrameCopy(heap, ref) ==
    [heap |-> Append(heap, heap[ref]), ref |-> Len(heap) + 1]

\* The heap with object ref replaced by df.
HeapSet(heap, ref, df) == [heap EXCEPT ![ref] = df]

\* An exception leaves the function: nothing is returned.
Raise(heap, exc) == [raised |-> TRUE, exc |-> exc, heap |-> heap, ref |-> 0]

Return(heap, ref) == [raised |-> FALSE, exc |-> "", heap |-> heap, ref |-> ref]

\* The exponent np.power is given: twelve months a year.
MonthsPerYear == 12

\* Variant: the geometric mean taken of the input column plus one, read
\* again after the first write to the output column.
composite_rereading_input(heap, df_ref, monthly_return_data_column, output_column) ==
    LET c == DataFrameCopy(heap, df_ref)
        dfr == c.ref
        g == GetItem(c.heap[dfr], monthly_return_data_column)
    IN  IF g.raised THEN Raise(c.heap, "KeyError")
        ELSE
        LET h1 == HeapSet(c.heap, dfr, SetItem(c.heap[dfr], output_column,
                      [i \in 1..Len(g.series) |-> VAddQ(g.series[i], One)]))
            s1 == GetItem(h1[dfr], monthly_return_data_column).series
            h2 == HeapSet(h1, dfr, SetItem(h1[dfr], output_column,
                      Broadcast(h1[dfr],
                          gmean([i \in 1..Len(s1) |-> VAddQ(s1[i], One)]))))
            s2 == GetItem(h2[dfr], output_column).series
            h3 == HeapSet(h2, dfr, SetItem(h2[dfr], output_column,
                      [i \in 1..Len(s2) |-> NpPower(s2[i], MonthsPerYear)]))
            s3 == GetItem(h3[dfr], output_column).series
            h4 == HeapSet(h3, dfr, SetItem(h3[dfr], output_column,
                      [i \in 1..Len(s3) |-> VAddQ(s3[i], RNeg(One))]))
        IN  Return(h4, dfr)

calculate_composite_annual_return(heap, df_ref, monthly_return_data_column, output_column) ==
    LET c == DataFrameCopy(heap, df_ref)
        dfr == c.ref
        g == GetItem(c.heap[dfr], monthly_return_data_column)
    IN  IF g.raised THEN Raise(c.heap, "KeyError")
        ELSE
        LET h1 == HeapSet(c.heap, dfr, SetItem(c.heap[dfr], output_column,
                      [i \in 1..Len(g.series) |-> VAddQ(g.series[i], One)]))
            h2 == HeapSet(h1, dfr, SetItem(h1[dfr], output_column,
                      Broadcast(h1[dfr],
                                gmean(GetItem(h1[dfr], output_column).series))))
            s2 == GetItem(h2[dfr], output_column).series
            h3 == HeapSet(h2, dfr, SetItem(h2[dfr], output_column,
                      [i \in 1..Len(s2) |-> NpPower(s2[i], MonthsPerYear)]))
            s3 == GetItem(h3[dfr], output_column).series
            h4 == HeapSet(h3, dfr, SetItem(h3[dfr], output_column,
                      [i \in 1..Len(s3) |-> VAddQ(s3[i], RNeg(One))]))
        IN  Return(h4, dfr)

calculate_sharpe_ratio(heap, df_ref, returns_column, risk_free_rate, output_column) ==
    LET c == DataFrameCopy(heap, df_ref)
        dfr == c.ref
        g == GetItem(c.heap[dfr], returns_column)
    IN  IF g.raised THEN Raise(c.heap, "KeyError")
        ELSE
        LET h1 == HeapSet(c.heap, dfr, SetItem(c.heap[dfr], "excess_returns",
                      [i \in 1..Len(g.series) |->
                          VAddQ(g.series[i], RNeg(risk_free_rate))]))
            mean_excess_return ==
                SeriesMean(GetItem(h1[dfr], "excess_returns").series)
            std_deviation == SeriesStd(GetItem(h1[dfr], returns_column).series)
            h2 == HeapSet(h1, dfr, SetItem(h1[dfr], output_column,
                      Broadcast(h1[dfr],
                                FloatDiv(mean_excess_return, std_deviation))))
        IN  Return(h2, dfr)

(***************************************************************************)
(* The inputs: tables a caller may hold and the arguments it may pass.     *)
(***************************************************************************)
\* Periodic returns: below -1, exactly -1, and above -1.
ReturnValues == {<<-2, 1>>, <<-1, 1>>, <<-1, 2>>, <<0, 1>>, <<1, 1>>}

\* The returns of the documented Sharpe example: 0.02, 0.03, 0.01.
ExampleReturns == << <<1, 50>>, <<3, 100>>, <<1, 100>> >>

ReturnVectors ==
    UNION {[1..n -> ReturnValues] : n \in 0..MaxRows} \cup {ExampleReturns}

RiskFreeRates == {<<0, 1>>, <<1, 100>>, <<1, 2>>}

Layouts ==
    { <<"ret">>, <<"excess_returns">>, <<"ret", "aux">>, <<"ret", "out">>,
      <<"out", "ret">>, <<"ret", "excess_returns">>,
      <<"excess_returns", "ret">>, <<"out", "ret", "aux">>,
      <<"ret", "excess_returns", "out">> }

InputNames == {"ret", "excess_returns", "aux"}

OutputNames == {"out", "ret", "excess_returns", "aux"}

\* A table of the given columns: the first holds rs, the j-th rs + (j-1)/2,
\* so that no two columns of a table agree in any row.
MakeTable(layout, rs) ==
    [cols |-> layout,
     nrows |-> Len(rs),
     data |-> [c \in {layout[j] : j \in 1..Len(layout)} |->
                 LET j == CHOOSE x \in 1..Len(layout) : layout[x] = c
                 IN  [i \in 1..Len(rs) |-> Num(RAdd(rs[i], <<j - 1, 2>>))]]]

InputTables == {MakeTable(l, rs) : l \in Layouts, rs \in ReturnVectors}

NoTable == [cols |-> <<>>, nrows |-> 0, data |-> <<>>]

NoCall == [fn |-> "none", input |-> "", rate |-> Zero, output |-> ""]

(***************************************************************************)
(* The state: the caller's DataFrame object, its content before the last   *)
(* call, the last call's arguments and what the call gave back.            *)
(***************************************************************************)
VARIABLES target_df, before, call, outcome

vars == <<target_df, before, call, outcome>>

Init ==
    /\ target_df \in InputTables
    /\ before = target_df
    /\ call = NoCall
    /\ outcome = [status |-> "none", exc |-> "", table |-> NoTable]

\* What the caller sees of a finished call r.
Outcome(r) ==
    IF r.raised
    THEN [status |-> "raised", exc |-> r.exc, table |-> NoTable]
    ELSE [status |-> "returned", exc |-> "", table |-> r.heap[r.ref]]

CallCompositeAnnualReturn ==
    \E input \in InputNames, output \in OutputNames :
        LET r == calculate_composite_annual_return(<<target_df>>, 1, input, output)
        IN  /\ call = NoCall
            /\ target_df' = r.heap[1]
            /\ before' = target_df
            /\ call' = [fn |-> "calculate_composite_annual_return",
                        input |-> input, rate |-> Zero, output |-> output]
            /\ outcome' = Outcome(r)

CallSharpeRatio ==
    \E input \in InputNames, rate \in RiskFreeRates, output \in OutputNames :
        LET r == calculate_sharpe_ratio(<<target_df>>, 1, input, rate, output)
        IN  /\ call = NoCall
            /\ target_df' = r.heap[1]
            /\ before' = target_df
            /\ call' = [fn |-> "calculate_sharpe_ratio",
                        input |-> input, rate |-> rate, output |-> output]
            /\ outcome' = Outcome(r)

Next == CallCompositeAnnualReturn \/ CallSharpeRatio

Spec == Init /\ [][Next]_vars

(***************************************************************************)
(* Vocabulary of the properties.                                           *)
(***************************************************************************)
Called == call # NoCall

Returned == outcome.status = "returned"

IsComposite == call.fn = "calculate_composite_annual_return"

IsSharpe == call.fn = "calculate_sharpe_ratio"

InputPresent == call.input \in Columns(before)

\* The returns the call read: the input column of the caller's table.
InputReturns == [i \in 1..before.nrows |-> Off(before.data[call.input][i])]

\* The output column of the returned table.
OutputCells == outcome.table.data[call.output]

AllCells(v) == \A i \in 1..Len(OutputCells) : OutputCells[i] = v

RECURSIVE RProd(_)
RProd(qs) ==
    IF Len(qs) = 0 THEN One
    ELSE RMul(RProd(SubSeq(qs, 1, Len(qs) - 1)), qs[Len(qs)])

\* The sample variance of qs (two values or more), from its definition.
SampleVariance(qs) ==
    LET mean == RDiv(RSum(qs), <<Len(qs), 1>>)
    IN  RDiv(RSum([i \in 1..Len(qs) |->
                      RMul(RSub(qs[i], mean), RSub(qs[i], mean))]),
             <<Len(qs) - 1, 1>>)

\* The sign and the square of a finite cell  sgn * base^(en/2)  or  on/od.
CellSign(v) == IF v.sgn = 0 THEN Sign(v.on) ELSE v.sgn

CellSquare(v) ==
    IF v.sgn = 0 THEN RMul(Off(v), Off(v))
    ELSE IF v.ed = 2 /\ v.on = 0 THEN <<v.bn ^ v.en, v.bd ^ v.en>>
    ELSE <<-1, 1>>

(***************************************************************************)
(* Properties.                                                             *)
(***************************************************************************)
\* C1: after either function returns, the caller's table has exactly the
\* columns and cells it had before the call, and an output column that was
\* absent from it is still absent.
C1_InputNotMutated ==
    (Called /\ Returned) =>
        /\ target_df = before
        /\ (call.output \notin Columns(before)
                => call.output \notin Columns(target_df))

C1_Witness ==
    /\ Called /\ Returned
    /\ call.output \notin Columns(before)
    /\ call.output \in Columns(outcome.table)
    /\ target_df = before

\* C2: the returned table's columns are the input's columns plus the output
\* column only, and every other column holds the input's values.
C2_OneColumnAdded ==
    (Called /\ Returned) =>
        /\ Columns(outcome.table) = Columns(before) \cup {call.output}
        /\ \A c \in Columns(before) \ {call.output} :
               outcome.table.data[c] = before.data[c]

\* C3: the output column of the returned table has as many rows as the
\* input table and all its cells hold one and the same value.
C3_BroadcastScalar ==
    (Called /\ Returned) =>
        /\ outcome.table.nrows = before.nrows
        /\ Len(OutputCells) = before.nrows
        /\ \A i, j \in 1..Len(OutputCells) : OutputCells[i] = OutputCells[j]

C3_Witness ==
    /\ Called /\ Returned
    /\ before.nrows >= 2
    /\ InputReturns[1] # InputReturns[2]
    /\ OutputCells[1] = OutputCells[2]
    /\ OutputCells[1].k = "fin"

\* C4: calculate_sharpe_ratio writes into every row the quotient s of
\* mean(returns) - risk_free_rate by the sample standard deviation (n - 1
\* divisor) of the raw returns: s has the sign of mean - rate and
\* s^2 * variance = (mean - rate)^2; returns 0.02, 0.03, 0.01 with rate
\* 0.01 give exactly 1.
C4_SharpeFormula ==
    (IsSharpe /\ Returned /\ before.nrows >= 2
        /\ SampleVariance(InputReturns) # Zero) =>
        LET n == before.nrows
            excess == RSub(RDiv(RSum(InputReturns), <<n, 1>>), call.rate)
        IN  /\ \A i \in 1..n :
                  /\ OutputCells[i].k = "fin"
                  /\ CellSign(OutputCells[i]) = Sign(excess[1])
                  /\ RMul(CellSquare(OutputCells[i]),
                          SampleVariance(InputReturns)) = RMul(excess, excess)
            /\ (InputReturns = ExampleReturns /\ call.rate = <<1, 100>>)
                  => AllCells(Num(One))

C4_Witness ==
    /\ IsSharpe /\ Returned
    /\ InputReturns = ExampleReturns
    /\ call.rate = <<1, 100>>
    /\ OutputCells = <<Num(One), Num(One), Num(One)>>

\* C5: where every 1 + r_i is non-negative, calculate_composite_annual_return
\* writes into every row P^(12/n) - 1 for the product P of the n values
\* 1 + r_i, the exponent 12 whatever the number of rows; for returns all
\* equal to r > -1 that is (1 + r)^12 - 1.
C5_CompositeFormula ==
    (IsComposite /\ Returned /\ before.nrows >= 1
        /\ \A i \in 1..before.nrows : InputReturns[i][1] >= -InputReturns[i][2]) =>
        LET n == before.nrows
            growth == [i \in 1..n |-> RAdd(One, InputReturns[i])]
            P == RProd(growth)
        IN  /\ AllCells(IF P = Zero THEN Num(<<-1, 1>>)
                        ELSE VAddQ(CanonPow(P, 12, n), <<-1, 1>>))
            /\ (P # Zero /\ \A i \in 1..n : growth[i] = growth[1])
                  => AllCells(VAddQ(CanonPow(growth[1], 12, 1), <<-1, 1>>))

C5_Witness ==
    /\ IsComposite /\ Returned
    /\ before.nrows = 2
    /\ InputReturns = << <<1, 1>>, <<-1, 2>> >>
    /\ OutputCells[1] = Num(Zero)

\* Some return of the input column is at most -1 / below -1 / exactly -1.
SomeReturnAtMostMinusOne ==
    \E i \in 1..before.nrows : InputReturns[i][1] <= -InputReturns[i][2]

SomeReturnBelowMinusOne ==
    \E i \in 1..before.nrows : InputReturns[i][1] < -InputReturns[i][2]

\* C6 as stated: calculate_composite_annual_return fails or writes nan
\* whenever some periodic return is at most -1, a return of exactly -1
\* included.
C6_NanAtOrBelowMinusOne ==
    (IsComposite /\ InputPresent /\ SomeReturnAtMostMinusOne) =>
        \/ outcome.status = "raised"
        \/ Returned /\ AllCells(NaN)

\* C6 amended: it returns nan in every row whenever some return is below
\* -1; when none is below -1 and some return is exactly -1 it returns the
\* finite number -1 in every row.
C6_NanBelowMinusOne ==
    (IsComposite /\ InputPresent /\ SomeReturnAtMostMinusOne) =>
        /\ Returned
        /\ (SomeReturnBelowMinusOne => AllCells(NaN))
        /\ (~SomeReturnBelowMinusOne => AllCells(Num(<<-1, 1>>)))

C6_Witness ==
    /\ IsComposite /\ Returned
    /\ InputReturns = << <<-1, 1>>, <<1, 1>> >>
    /\ OutputCells = <<Num(<<-1, 1>>), Num(<<-1, 1>>)>>

\* C7: when the named input column does not exist, both functions end with
\* a KeyError: no table is returned and the caller's table is unchanged.
C7_MissingColumnRaises ==
    (Called /\ ~InputPresent) =>
        /\ outcome.status = "raised"
        /\ outcome.exc = "KeyError"
        /\ outcome.table = NoTable
        /\ target_df = before

C7_Witness ==
    /\ Called /\ ~InputPresent
    /\ outcome.status = "raised"
    /\ before.nrows >= 1

\* C8: an output column that exists in the input is overwritten where it
\* stands, the columns' number and order unchanged; one that does not is
\* the last column of the returned table, after all the input's columns.
C8_OverwriteOrAppend ==
    (Called /\ Returned) =>
        LET new == outcome.table.cols
            old == before.cols
        IN  IF call.output \in Columns(before)
            THEN new = old
            ELSE /\ Len(new) > Len(old)
                 /\ SubSeq(new, 1, Len(old)) = old
                 /\ new[Len(new)] = call.output

\* C9: when the sample standard deviation of the returns column is zero
\* (all returns equal) or undefined (a single row), calculate_sharpe_ratio
\* raises nothing and returns a table whose output column holds inf, -inf
\* or nan in every row.
C9_DegenerateNotGuarded ==
    (IsSharpe /\ InputPresent
        /\ \/ before.nrows = 1
           \/ before.nrows >= 2 /\ SampleVariance(InputReturns) = Zero) =>
        /\ Returned
        /\ Len(OutputCells) = before.nrows
        /\ \A i \in 1..before.nrows : OutputCells[i].k \in {"nan", "inf", "ninf"}

C9_Witness ==
    /\ IsSharpe /\ Returned
    /\ before.nrows = 2
    /\ InputReturns[1] = InputReturns[2]
    /\ OutputCells = <<NegInf, NegInf>>

\* A column name no table of the model has.
FreshName == "fresh_output"

\* The output column of the table the last call would return with the
\* fresh output column name.
FreshOutputCells ==
    LET r == IF IsComposite
             THEN calculate_composite_annual_return(<<before>>, 1, call.input,
                                                    FreshName)
             ELSE calculate_sharpe_ratio(<<before>>, 1, call.input, call.rate,
                                         FreshName)
    IN  r.heap[r.ref].data[FreshName]

\* C10: when output_column names the input returns column, the value
\* broadcast into it is the value the same call with a fresh output column
\* name broadcasts.
C10_AliasedOutput ==
    (Called /\ Returned /\ call.output = call.input) =>
        OutputCells = FreshOutputCells

C10_Witness ==
    /\ IsComposite /\ Returned
    /\ call.output = call.input
    /\ before.nrows = 2
    /\ InputReturns = << <<1, 1>>, <<0, 1>> >>
    /\ OutputCells = <<Num(<<63, 1>>), Num(<<63, 1>>)>>

=============================================================================
